---- MODULE Spec2Model ----
(***************************************************************************)
(* A model of kt's HTTP protocol adapter (src/kt/http.py): the wire frame  *)
(* codec, the request router and the operation set of HttpProtocol, run    *)
(* against a Kyoto Tycoon style server reached through a blocking          *)
(* transport.                                                              *)
(*                                                                         *)
(* Python objects are tagged records: None, bool, int, str (a sequence of  *)
(* code points), bytes (a sequence of 0..255) and dict (a function).       *)
(* A request mapping, whose iteration order is its insertion order, is a   *)
(* sequence of <<key, value>> pairs with distinct keys.                    *)
(***************************************************************************)
EXTENDS Integers, Sequences, FiniteSets, TLC

\* ------------------------------------------------------------------------
\* Python objects
\* ------------------------------------------------------------------------
None == [t |-> "None"]
Bool(b) == [t |-> "bool", b |-> b]
IntObj(n) == [t |-> "int", n |-> n]
Str(s) == [t |-> "str", s |-> s]
Bytes(s) == [t |-> "bytes", s |-> s]
Dict(d) == [t |-> "dict", d |-> d]

EmptyMap == [x \in {} |-> None]

\* accum[key] = value
DictSet(d, k, v) == [x \in DOMAIN d \cup {k} |-> IF x = k THEN v ELSE d[x]]

\* What a call produces: a returned object, or a raised exception
\* (ProtocolError carries the status code).
Returns(v) == [exc |-> "none", code |-> 0, ret |-> v]
Raises(e) == [exc |-> e, code |-> 0, ret |-> None]
RaiseProtocolError(status) == [exc |-> "ProtocolError", code |-> status, ret |-> None]

\* ------------------------------------------------------------------------
\* Byte constants of the wire format
\* ------------------------------------------------------------------------
TAB == 9
NL == 10
PAD == 61
UNDERSCORE == 95
PERCENT == 37

\* ------------------------------------------------------------------------
\* _binary.encode / _binary.decode: text <-> UTF-8 bytes
\* ------------------------------------------------------------------------
RECURSIVE utf8_encode(_)
utf8_encode(cps) ==
    IF cps = <<>> THEN <<>>
    ELSE LET c == Head(cps)
             h == IF c < 128 THEN <<c>>
                  ELSE IF c < 2048 THEN <<192 + (c \div 64), 128 + (c % 64)>>
                  ELSE <<224 + (c \div 4096), 128 + ((c \div 64) % 64), 128 + (c % 64)>>
         IN  h \o utf8_encode(Tail(cps))

IsCont(b) == b >= 128 /\ b <= 191

\* the code points of a UTF-8 byte string, or <<-1>> when it is not valid UTF-8
RECURSIVE utf8_decode(_)
utf8_decode(bs) ==
    IF bs = <<>> THEN <<>>
    ELSE LET b == Head(bs)
             n == IF b < 128 THEN 1
                  ELSE IF b >= 194 /\ b <= 223 THEN 2
                  ELSE IF b >= 224 /\ b <= 239 THEN 3
                  ELSE 0
             ok == /\ n > 0
                   /\ Len(bs) >= n
                   /\ \A i \in 2..n : IsCont(bs[i])
             cp == IF n = 1 THEN b
                   ELSE IF n = 2 THEN (b - 192) * 64 + (bs[2] - 128)
                   ELSE (b - 224) * 4096 + (bs[2] - 128) * 64 + (bs[3] - 128)
             valid == ok /\ (n = 3 => (cp >= 2048 /\ ~(cp >= 55296 /\ cp <= 57343)))
         IN  IF ~valid THEN <<-1>>
             ELSE LET rest == utf8_decode(SubSeq(bs, n + 1, Len(bs)))
                  IN  IF rest = <<-1>> THEN <<-1>> ELSE <<cp>> \o rest

\* encode(obj): text becomes its UTF-8 bytes, bytes are kept
encode(obj) ==
    IF obj.t = "str" THEN Bytes(utf8_encode(obj.s)) ELSE obj

TextOrError(cps) ==
    IF cps = <<-1>> THEN Raises("UnicodeDecodeError") ELSE Returns(Str(cps))

\* decode(obj): bytes become text (UnicodeDecodeError when not UTF-8), text is kept
decode(obj) ==
    IF obj.t = "bytes" THEN TextOrError(utf8_decode(obj.s)) ELSE Returns(obj)

\* ------------------------------------------------------------------------
\* base64 (the standard alphabet, '=' padding)
\* ------------------------------------------------------------------------
B64Char(i) ==
    IF i < 26 THEN 65 + i
    ELSE IF i < 52 THEN 97 + (i - 26)
    ELSE IF i < 62 THEN 48 + (i - 52)
    ELSE IF i = 62 THEN 43 ELSE 47

\* the 6-bit value of an alphabet character, 64 for any other byte
B64Val(c) ==
    IF c >= 65 /\ c <= 90 THEN c - 65
    ELSE IF c >= 97 /\ c <= 122 THEN c - 97 + 26
    ELSE IF c >= 48 /\ c <= 57 THEN c - 48 + 52
    ELSE IF c = 43 THEN 62
    ELSE IF c = 47 THEN 63 ELSE 64

RECURSIVE b64encode_seq(_)
b64encode_seq(s) ==
    IF Len(s) = 0 THEN <<>>
    ELSE IF Len(s) = 1
    THEN <<B64Char(s[1] \div 4), B64Char((s[1] % 4) * 16), PAD, PAD>>
    ELSE IF Len(s) = 2
    THEN <<B64Char(s[1] \div 4), B64Char((s[1] % 4) * 16 + (s[2] \div 16)),
           B64Char((s[2] % 16) * 4), PAD>>
    ELSE <<B64Char(s[1] \div 4), B64Char((s[1] % 4) * 16 + (s[2] \div 16)),
           B64Char((s[2] % 16) * 4 + (s[3] \div 64)), B64Char(s[3] % 64)>>
         \o b64encode_seq(SubSeq(s, 4, Len(s)))

b64encode(b) == Bytes(b64encode_seq(b.s))

\* binascii.a2b_base64 in its default, non-strict mode: bytes outside the
\* alphabet are skipped, a complete pad sequence ends the input, and input
\* that stops inside a quad is an error (<<-1>>).
RECURSIVE a2b_base64(_, _, _, _, _, _)
a2b_base64(s, i, quad_pos, leftchar, pads, out) ==
    IF i > Len(s) THEN (IF quad_pos # 0 THEN <<-1>> ELSE out)
    ELSE IF s[i] = PAD
    THEN IF quad_pos >= 2 /\ quad_pos + pads + 1 >= 4
         THEN out
         ELSE a2b_base64(s, i + 1, quad_pos, leftchar,
                         IF quad_pos >= 2 THEN pads + 1 ELSE pads, out)
    ELSE LET c == B64Val(s[i]) IN
         IF c >= 64 THEN a2b_base64(s, i + 1, quad_pos, leftchar, pads, out)
         ELSE IF quad_pos = 0 THEN a2b_base64(s, i + 1, 1, c, 0, out)
         ELSE IF quad_pos = 1
         THEN a2b_base64(s, i + 1, 2, c % 16, 0,
                         Append(out, leftchar * 4 + (c \div 16)))
         ELSE IF quad_pos = 2
         THEN a2b_base64(s, i + 1, 3, c % 4, 0,
                         Append(out, leftchar * 16 + (c \div 4)))
         ELSE a2b_base64(s, i + 1, 0, 0, 0, Append(out, leftchar * 64 + c))

OrError(r, e) == IF r = <<-1>> THEN Raises(e) ELSE Returns(Bytes(r))

b64decode(b) == OrError(a2b_base64(b.s, 1, 0, 0, 0, <<>>), "binascii.Error")

\* ------------------------------------------------------------------------
\* URL quoting
\* ------------------------------------------------------------------------
HexDigit(n) == IF n < 10 THEN 48 + n ELSE 65 + (n - 10)

IsUnreserved(c) ==
    \/ c >= 65 /\ c <= 90
    \/ c >= 97 /\ c <= 122
    \/ c >= 48 /\ c <= 57
    \/ c \in {45, 46, 95, 126}

RECURSIVE quote_seq(_)
quote_seq(s) ==
    IF s = <<>> THEN <<>>
    ELSE LET c == Head(s)
         IN  (IF IsUnreserved(c) THEN <<c>>
              ELSE <<PERCENT, HexDigit(c \div 16), HexDigit(c % 16)>>)
             \o quote_seq(Tail(s))

\* quote_b = partial(quote_from_bytes, safe='')
quote_b(b) == Bytes(quote_seq(b.s))

\* unquote_b = partial(unquote_to_bytes, safe=''): unquote_to_bytes takes the
\* string alone, so every call is refused with a TypeError.
unquote_b(b) == Raises("TypeError")

\* ------------------------------------------------------------------------
\* Wire frame codec
\* ------------------------------------------------------------------------
RECURSIVE Join(_, _)
Join(parts, sep) ==
    IF parts = <<>> THEN <<>>
    ELSE IF Len(parts) = 1 THEN parts[1]
    ELSE parts[1] \o <<sep>> \o Join(Tail(parts), sep)

\* the index of the first sep in s, 0 when there is none
IndexOf(s, sep) ==
    IF \E i \in 1..Len(s) : s[i] = sep
    THEN CHOOSE i \in 1..Len(s) : s[i] = sep /\ \A j \in 1..(i - 1) : s[j] # sep
    ELSE 0

\* bytes.split(sep)
RECURSIVE Split(_, _)
Split(s, sep) ==
    LET i == IndexOf(s, sep)
    IN  IF i = 0 THEN <<s>>
        ELSE <<SubSeq(s, 1, i - 1)>> \o Split(SubSeq(s, i + 1, Len(s)), sep)

\* a record whose value is written as it is, not in base64
encode_record_plain(pair) ==
    b64encode(encode(pair[1])).s \o <<TAB>> \o encode(pair[2]).s

\* b'%s\t%s' % (b64encode(bkey), b64encode(bvalue))
encode_record(pair) ==
    b64encode(encode(pair[1])).s \o <<TAB>> \o b64encode(encode(pair[2])).s

\* _encode_keys_values(data): data is the mapping's items in iteration order
_encode_keys_values(data) ==
    Bytes(Join([i \in 1..Len(data) |-> encode_record(data[i])], NL))

\* b'%s\t' % b64encode(b'_' + encode(key))
encode_key_record(key) ==
    b64encode(Bytes(<<UNDERSCORE>> \o encode(key).s)).s \o <<TAB>>

\* _encode_keys(keys)
_encode_keys(keys) ==
    Bytes(Join([i \in 1..Len(keys) |-> encode_key_record(keys[i])], NL))

EndsWith(s, suffix) ==
    Len(s) >= Len(suffix) /\ SubSeq(s, Len(s) - Len(suffix) + 1, Len(s)) = suffix

\* decode_from_content_type(content_type): the decoder's name, "None" for none
decode_from_content_type(content_type) ==
    IF EndsWith(content_type, "colenc=B") THEN "b64decode"
    ELSE IF EndsWith(content_type, "colenc=U") THEN "unquote_b"
    ELSE "None"

\* decoder(field)
apply_decoder(decoder, field) ==
    IF decoder = "b64decode" THEN b64decode(field)
    ELSE IF decoder = "unquote_b" THEN unquote_b(field)
    ELSE Returns(field)

RECURSIVE decode_lines(_, _, _, _)
\* accum[key] = value, after key = decode(key) when keys are decoded
store_field(k, value, accum) ==
    IF k.exc # "none" THEN k ELSE Returns(Dict(DictSet(accum, k.ret, value.ret)))

\* key, value = decoder(key), decoder(value), and what follows in the loop
decode_fields(key, value, decode_keys_, accum) ==
    IF key.exc # "none" THEN key
    ELSE IF value.exc # "none" THEN value
    ELSE store_field(IF decode_keys_ THEN decode(key.ret) ELSE key, value, accum)

\* key, value = line.split(b'\t', 1), with i the index of the first tab:
\* a line without a tab is skipped
split_line(line, i, decoder, decode_keys_, accum) ==
    IF i = 0 THEN Returns(Dict(accum))
    ELSE decode_fields(apply_decoder(decoder, Bytes(SubSeq(line, 1, i - 1))),
                       apply_decoder(decoder, Bytes(SubSeq(line, i + 1, Len(line)))),
                       decode_keys_, accum)

\* One record of the response: the body of the loop of _decode_response.
\* The outcome holds the mapping accum after the record, or the exception.
decode_line(line, decoder, decode_keys_, accum) ==
    split_line(line, IndexOf(line, TAB), decoder, decode_keys_, accum)

\* the loop of _decode_response from its first record on, r being what the
\* first record made of accum
decode_rest(r, lines, decoder, decode_keys_) ==
    IF r.exc # "none" THEN r
    ELSE decode_lines(Tail(lines), decoder, decode_keys_, r.ret.d)

decode_lines(lines, decoder, decode_keys_, accum) ==
    IF lines = <<>> THEN Returns(Dict(accum))
    ELSE decode_rest(decode_line(Head(lines), decoder, decode_keys_, accum),
                     lines, decoder, decode_keys_)

\* _decode_response(tsv, content_type), under the client's _decode_keys
_decode_response(tsv, content_type, decode_keys_) ==
    decode_lines(Split(tsv.s, NL), decode_from_content_type(content_type),
                 decode_keys_, EmptyMap)

\* ------------------------------------------------------------------------
\* Client configuration and the value codec
\* ------------------------------------------------------------------------
VARIABLES
    decode_keys,   \* client._decode_keys
    serializer,    \* the client's value codec: "KT_BINARY" or "KT_NONE"
    store,         \* the server's records: key bytes -> value bytes
    pc,            \* "idle", "posted" (blocked in the transport) or "returned"
    call,          \* the operation in progress and its arguments
    sent,          \* the transport call of the operation: url and body
    reply,         \* the transport's answer: status, content, content type
                   \* (and the fields the server wrote the content from)
    outcome,       \* what the operation returned or raised
    calls,         \* the number of transport calls made so far
    written        \* key bytes -> the value of the last successful set of the
                   \* key, dropped by any later write or removal of the key

vars == <<decode_keys, serializer, store, pc, call, sent, reply, outcome,
          calls, written>>

Serializers == {"KT_BINARY", "KT_NONE"}

\* client._encode_value(value)
_encode_value(codec, value) ==
    IF codec = "KT_BINARY" THEN encode(value) ELSE value

\* client._decode_value(value)
_decode_value(codec, value) ==
    IF codec = "KT_BINARY" THEN decode(value) ELSE Returns(value)

\* ------------------------------------------------------------------------
\* Text formatting
\* ------------------------------------------------------------------------
DigitStr(d) ==
    CASE d = 0 -> "0" [] d = 1 -> "1" [] d = 2 -> "2" [] d = 3 -> "3"
      [] d = 4 -> "4" [] d = 5 -> "5" [] d = 6 -> "6" [] d = 7 -> "7"
      [] d = 8 -> "8" [] d = 9 -> "9"

RECURSIVE DecimalStr(_)
DecimalStr(n) ==
    IF n < 10 THEN DigitStr(n) ELSE DecimalStr(n \div 10) \o DigitStr(n % 10)

RECURSIVE DecimalDigits(_)
DecimalDigits(n) ==
    IF n < 10 THEN <<48 + n>> ELSE Append(DecimalDigits(n \div 10), 48 + (n % 10))

\* str(n): the text of an int
str(obj) == Str(DecimalDigits(obj.n))

\* '%s' % db, as a piece of the path
FormatDb(db) ==
    IF db.t = "None" THEN "None"
    ELSE IF db.t = "bool" THEN (IF db.b THEN "True" ELSE "False")
    ELSE DecimalStr(db.n)

\* '_%s' % key for a text key
Underscored(key) == Str(<<UNDERSCORE>> \o key.s)

\* key[1:]
StripFirst(key) ==
    [t |-> key.t, s |-> SubSeq(key.s, 2, Len(key.s))]

\* the field names of the protocol
F_key == Str(<<107, 101, 121>>)
F_value == Str(<<118, 97, 108, 117, 101>>)
F_xt == Str(<<120, 116>>)
F_oval == Str(<<111, 118, 97, 108>>)
F_nval == Str(<<110, 118, 97, 108>>)
F_num == Str(<<110, 117, 109>>)

\* 'name' if self.client._decode_keys else b'name'
FieldKey(name, decode_keys_) == IF decode_keys_ THEN name ELSE encode(name)

\* ------------------------------------------------------------------------
\* Request router
\* ------------------------------------------------------------------------
Prefix == "http://127.0.0.1:1978/rpc"

Items(d) == [t |-> "dict", items |-> d]
List(l) == [t |-> "list", items |-> l]
Tuple(S) == [t |-> "tuple", items |-> S]

\* request(), lines 105-110: the body by the shape of data
request_body(data) ==
    IF data.t = "dict" THEN _encode_keys_values(data.items)
    ELSE IF data.t = "list" THEN _encode_keys(data.items)
    ELSE data

\* _post(path, body, db): the transport call made
_post(path, body, db) ==
    LET p == IF db # Bool(FALSE) THEN path \o "?DB=" \o FormatDb(db) ELSE path
    IN  [url |-> Prefix \o p, body |-> body]

\* request() with the allowed statuses ignored: every status but 200 raises
request_strict(r, allowed_status, decode_keys_) ==
    IF r.status_code # 200 THEN RaiseProtocolError(r.status_code)
    ELSE _decode_response(r.content, r.content_type, decode_keys_)

\* request(), lines 113-118, once the transport has answered r: the decoded
\* frame, or the exception raised
request(r, allowed_status, decode_keys_) ==
    IF r.status_code # 200
       /\ (allowed_status = None \/ r.status_code \notin allowed_status.items)
    THEN RaiseProtocolError(r.status_code)
    ELSE _decode_response(r.content, r.content_type, decode_keys_)

\* ------------------------------------------------------------------------
\* Operation set.  For each operation, X_request(c) is the request its call c
\* hands to request(): path, data, db and allowed_status; X_result(c, r, ...)
\* is what the operation makes of the transport's answer r.
\* ------------------------------------------------------------------------
Req(path, data, db, allowed_status) ==
    [path |-> path, data |-> data, db |-> db, allowed_status |-> allowed_status]

Allow450 == Tuple({450})

\* int(b): the decimal digits of b as a number
RECURSIVE DigitsValue(_)
DigitsValue(s) ==
    IF s = <<>> THEN 0 ELSE DigitsValue(SubSeq(s, 1, Len(s) - 1)) * 10 + (s[Len(s)] - 48)

int(b) ==
    IF b.s # <<>> /\ \A i \in 1..Len(b.s) : b.s[i] >= 48 /\ b.s[i] <= 57
    THEN Returns(IntObj(DigitsValue(b.s)))
    ELSE Raises("ValueError")

\* resp['value' if self.client._decode_keys else b'value'], then _decode_value
lookup_value(resp, k, codec) ==
    IF k \in DOMAIN resp THEN _decode_value(codec, resp[k]) ELSE Raises("KeyError")

value_field(resp, decode_keys_, codec) ==
    lookup_value(resp, FieldKey(F_value, decode_keys_), codec)

\* for key, value in resp.items(): accum[key[1:]] = self.client._decode_value(value)
strip_and_decode(resp, codec) ==
    LET failed == {k \in DOMAIN resp : _decode_value(codec, resp[k]).exc # "none"}
        names == {StripFirst(k) : k \in DOMAIN resp}
        from(n) == CHOOSE k \in DOMAIN resp : StripFirst(k) = n
    IN  IF failed # {} THEN _decode_value(codec, resp[CHOOSE k \in failed : TRUE])
        ELSE Returns(Dict([n \in names |-> _decode_value(codec, resp[from(n)]).ret]))

\* the xt entry added when expire_time is not None
WithXt(items, expire_time) ==
    IF expire_time # None THEN Append(items, <<F_xt, str(expire_time)>>) ELSE items

\* In each X_result, q is what self.request(...) produced for the call: the
\* decoded frame, or the exception that leaves the operation with it.

status_request(c) == Req("/status", Items(<<>>), c.db, None)
status_result(c, r, q, decode_keys_, codec) == q

report_request(c) == Req("/report", Items(<<>>), None, None)
report_result(c, r, q, decode_keys_, codec) == q

clear_request(c) == Req("/clear", Items(<<>>), c.db, None)
clear_result(c, r, q, decode_keys_, codec) ==
    IF q.exc # "none" THEN q ELSE Returns(Bool(r.status_code = 200))

play_script_request(c, codec) ==
    Req("/play_script",
        Items([i \in 1..Len(c.params) |->
                  <<Underscored(c.params[i][1]), _encode_value(codec, c.params[i][2])>>]),
        Bool(FALSE), Allow450)
play_script_result(c, r, q, decode_keys_, codec) ==
    IF q.exc # "none" THEN q
    ELSE IF r.status_code = 450 THEN Returns(None)
    ELSE strip_and_decode(q.ret.d, codec)

get_request(c) == Req("/get", Items(<<<<F_key, c.key>>>>), c.db, Allow450)
get_result(c, r, q, decode_keys_, codec) ==
    IF q.exc # "none" THEN q
    ELSE IF r.status_code = 450 THEN Returns(None)
    ELSE value_field(q.ret.d, decode_keys_, codec)

\* _simple_write(cmd, key, value, db, expire_time) behind set, add, replace, append
_simple_write_request(cmd, c, codec) ==
    Req("/" \o cmd,
        Items(WithXt(<<<<F_key, c.key>>, <<F_value, _encode_value(codec, c.value)>>>>,
                     c.expire_time)),
        c.db, Allow450)
_simple_write_result(c, r, q, decode_keys_, codec) ==
    IF q.exc # "none" THEN q ELSE Returns(Bool(r.status_code # 450))

remove_request(c) == Req("/remove", Items(<<<<F_key, c.key>>>>), c.db, Allow450)
remove_result(c, r, q, decode_keys_, codec) ==
    IF q.exc # "none" THEN q ELSE Returns(Bool(r.status_code # 450))

check_request(c) == Req("/check", Items(<<<<F_key, c.key>>>>), c.db, Allow450)
check_result(c, r, q, decode_keys_, codec) ==
    IF q.exc # "none" THEN q ELSE Returns(Bool(r.status_code # 450))

set_bulk_request(c, codec) ==
    Req("/set_bulk",
        Items(WithXt(<<>>, c.expire_time)
              \o [i \in 1..Len(c.data) |->
                     <<Underscored(c.data[i][1]), _encode_value(codec, c.data[i][2])>>]),
        c.db, None)
set_bulk_result(c, r, q, decode_keys_, codec) == q

\* resp.pop(numkey, b'0') and what get_bulk does with the rest
get_bulk_rest(resp, numkey, codec) ==
    IF (IF numkey \in DOMAIN resp THEN resp[numkey] ELSE Bytes(<<48>>)) = Bytes(<<48>>)
    THEN Returns(Dict(EmptyMap))
    ELSE strip_and_decode([k \in DOMAIN resp \ {numkey} |-> resp[k]], codec)

get_bulk_request(c) == Req("/get_bulk", List(c.keys), c.db, None)
get_bulk_result(c, r, q, decode_keys_, codec) ==
    IF q.exc # "none" THEN q
    ELSE get_bulk_rest(q.ret.d, FieldKey(F_num, decode_keys_), codec)

\* int(resp.pop(numkey))
pop_int(resp, numkey) ==
    IF numkey \in DOMAIN resp THEN int(resp[numkey]) ELSE Raises("KeyError")

remove_bulk_request(c) == Req("/remove_bulk", List(c.keys), c.db, None)
remove_bulk_result(c, r, q, decode_keys_, codec) ==
    IF q.exc # "none" THEN q
    ELSE pop_int(q.ret.d, FieldKey(F_num, decode_keys_))

seize_request(c) == Req("/seize", Items(<<<<F_key, c.key>>>>), c.db, Allow450)
seize_result(c, r, q, decode_keys_, codec) ==
    IF q.exc # "none" THEN q
    ELSE IF r.status_code = 450 THEN Returns(None)
    ELSE value_field(q.ret.d, decode_keys_, codec)

\* the argument check of cas() asking for a new value only
cas_usage_error_lax(c) == c.old_val = None /\ c.new_val # None

\* cas(), line 219: the argument check made before anything is built
cas_usage_error(c) == c.old_val = None /\ c.new_val = None

\* data[name] = self.client._encode_value(val) when val is not None
WithValue(items, name, val, codec) ==
    IF val # None THEN Append(items, <<name, _encode_value(codec, val)>>) ELSE items

cas_request(c, codec) ==
    Req("/cas",
        Items(WithXt(WithValue(WithValue(<<<<F_key, c.key>>>>, F_oval, c.old_val, codec),
                               F_nval, c.new_val, codec),
                     c.expire_time)),
        c.db, Allow450)
cas_result(c, r, q, decode_keys_, codec) ==
    IF q.exc # "none" THEN q ELSE Returns(Bool(r.status_code # 450))

\* ------------------------------------------------------------------------
\* The server behind the transport: a Kyoto Tycoon database answering the
\* RPC procedures.  A procedure answered with 200 has acted on the records;
\* any other answer leaves them as they were.
\* ------------------------------------------------------------------------
CT_B == "text/tab-separated-values; colenc=B"
CT_U == "text/tab-separated-values; colenc=U"
CT_RAW == "text/tab-separated-values"
ContentTypes == {CT_B, CT_U, CT_RAW}

StatusCodes == {200, 450, 500}

\* the procedure named by a url: what follows the prefix, up to the query
ProcOf(url) ==
    LET rest == SubSeq(url, Len(Prefix) + 1, Len(url))
        qs == {i \in 1..Len(rest) : SubSeq(rest, i, i) = "?"}
    IN  IF qs = {} THEN rest
        ELSE SubSeq(rest, 1, (CHOOSE i \in qs : \A j \in qs : i <= j) - 1)

\* the fields of a request body (colenc=B): name bytes -> value bytes
RECURSIVE ServerParseLines(_, _)
ServerParseLines(lines, acc) ==
    IF lines = <<>> THEN acc
    ELSE LET line == Head(lines)
             i == IndexOf(line, TAB)
         IN  IF i = 0 THEN ServerParseLines(Tail(lines), acc)
             ELSE ServerParseLines(Tail(lines),
                     DictSet(acc,
                             a2b_base64(SubSeq(line, 1, i - 1), 1, 0, 0, 0, <<>>),
                             a2b_base64(SubSeq(line, i + 1, Len(line)), 1, 0, 0, 0, <<>>)))

ServerParse(body) == ServerParseLines(Split(body.s, NL), EmptyMap)

Without(st, ks) == [k \in DOMAIN st \ ks |-> st[k]]

\* the names of the fields that carry an underscore, without it
BulkNames(f) == {Tail(n) : n \in {m \in DOMAIN f : m # <<>> /\ m[1] = UNDERSCORE}}

N_count == <<99, 111, 117, 110, 116>>
N_vsiz == <<118, 115, 105, 122>>
N_error == <<69, 82, 82, 79, 82>>

Ok(fields, st) == [ok |-> TRUE, fields |-> fields, store |-> st]
Refused(st) == [ok |-> FALSE, fields |-> EmptyMap, store |-> st]

Num(n) == (F_num.s :> DecimalDigits(n))

\* what procedure proc with fields f does to the records st when it succeeds,
\* and the fields of its answer; Refused when the procedure's condition fails
ServerEffect(proc, f, st) ==
    LET k == IF F_key.s \in DOMAIN f THEN f[F_key.s] ELSE <<>>
        v == IF F_value.s \in DOMAIN f THEN f[F_value.s] ELSE <<>>
        has == k \in DOMAIN st
        names == BulkNames(f)
        found == names \cap DOMAIN st
    IN  CASE proc = "/set" -> Ok(EmptyMap, DictSet(st, k, v))
          [] proc = "/add" -> IF has THEN Refused(st) ELSE Ok(EmptyMap, DictSet(st, k, v))
          [] proc = "/replace" -> IF has THEN Ok(EmptyMap, DictSet(st, k, v)) ELSE Refused(st)
          [] proc = "/append" ->
                Ok(EmptyMap, DictSet(st, k, (IF has THEN st[k] ELSE <<>>) \o v))
          [] proc = "/remove" -> IF has THEN Ok(EmptyMap, Without(st, {k})) ELSE Refused(st)
          [] proc = "/check" ->
                IF has THEN Ok((N_vsiz :> DecimalDigits(Len(st[k]))), st) ELSE Refused(st)
          [] proc = "/get" -> IF has THEN Ok((F_value.s :> st[k]), st) ELSE Refused(st)
          [] proc = "/seize" ->
                IF has THEN Ok((F_value.s :> st[k]), Without(st, {k})) ELSE Refused(st)
          [] proc = "/cas" ->
                LET matches == IF F_oval.s \in DOMAIN f
                               THEN has /\ st[k] = f[F_oval.s] ELSE ~has
                IN  IF ~matches THEN Refused(st)
                    ELSE IF F_nval.s \in DOMAIN f
                    THEN Ok(EmptyMap, DictSet(st, k, f[F_nval.s]))
                    ELSE Ok(EmptyMap, Without(st, {k}))
          [] proc = "/set_bulk" ->
                Ok(Num(Cardinality(names)),
                   [n \in DOMAIN st \cup names |->
                       IF n \in names THEN f[<<UNDERSCORE>> \o n] ELSE st[n]])
          [] proc = "/get_bulk" ->
                Ok([n \in {F_num.s} \cup {<<UNDERSCORE>> \o m : m \in found} |->
                       IF n = F_num.s THEN DecimalDigits(Cardinality(found))
                       ELSE st[Tail(n)]],
                   st)
          [] proc = "/remove_bulk" -> Ok(Num(Cardinality(found)), Without(st, found))
          [] proc = "/clear" -> Ok(EmptyMap, EmptyMap)
          [] proc = "/status" -> Ok((N_count :> DecimalDigits(Cardinality(DOMAIN st))), st)
          [] proc = "/report" -> Ok((N_count :> DecimalDigits(Cardinality(DOMAIN st))), st)
          [] proc = "/play_script" ->
                Ok([n \in {m \in DOMAIN f : m # <<>> /\ m[1] = UNDERSCORE} |-> f[n]], st)
          [] OTHER -> Refused(st)

\* byte strings in lexicographic order: the order of the server's field map
RECURSIVE LexLess(_, _)
LexLess(a, b) ==
    IF a = <<>> THEN b # <<>>
    ELSE IF b = <<>> THEN FALSE
    ELSE IF a[1] # b[1] THEN a[1] < b[1]
    ELSE LexLess(Tail(a), Tail(b))

RECURSIVE Sorted(_)
Sorted(S) ==
    IF S = {} THEN <<>>
    ELSE LET m == CHOOSE x \in S : \A y \in S \ {x} : LexLess(x, y)
         IN  <<m>> \o Sorted(S \ {m})

\* a field as the server writes it under a content type
ServerEncodeField(x, ctype) ==
    IF ctype = CT_B THEN b64encode_seq(x)
    ELSE IF ctype = CT_U THEN quote_seq(x)
    ELSE x

\* the response body for the fields under a content type
ServerEncode(fields, ctype) ==
    LET names == Sorted(DOMAIN fields)
    IN  Bytes(Join([i \in 1..Len(names) |->
                       ServerEncodeField(names[i], ctype) \o <<TAB>>
                       \o ServerEncodeField(fields[names[i]], ctype)], NL))

\* a field the server may send as it is: no control byte in it
Printable(x) == \A i \in 1..Len(x) : x[i] >= 32 /\ x[i] # 127

\* the content types the server may answer the fields with: an answer
\* without fields is plain, and fields are sent as they are only when none
\* holds a control byte
ServerContentTypes(fields) ==
    IF DOMAIN fields = {} THEN {CT_RAW}
    ELSE {ct \in ContentTypes :
            ct = CT_RAW => \A n \in DOMAIN fields : Printable(n) /\ Printable(fields[n])}

ErrorFields == (N_error :> <<101>>)

\* the answers to a request whose procedure would do eff to the records st:
\* status, content, content type, the fields the content was written from,
\* and the records afterwards
AnswersOf(eff, st) ==
    {[status_code |-> 200, content |-> ServerEncode(eff.fields, ct),
      content_type |-> ct, fields |-> eff.fields, store |-> eff.store] :
        ct \in IF eff.ok THEN ServerContentTypes(eff.fields) ELSE {}}
    \cup
    {[status_code |-> sc, content |-> ServerEncode(ErrorFields, CT_RAW),
      content_type |-> CT_RAW, fields |-> ErrorFields, store |-> st] :
        sc \in StatusCodes \ {200}}

\* the answers the transport may give to the request rq sent to the records st
Answers(rq, st) ==
    AnswersOf(ServerEffect(ProcOf(rq.url), ServerParse(rq.body), st), st)

\* ------------------------------------------------------------------------
\* Bounds and the arguments the operations are called with
\* ------------------------------------------------------------------------
MaxCalls == 2
MaxKeys == 2

Keys == {Str(<<107>>), Bytes(<<120>>)}
TextKeys == {Str(<<107>>), Str(<<120>>)}
Values(codec) ==
    IF codec = "KT_BINARY" THEN {Str(<<118>>), Str(<<233>>)}
    ELSE {Bytes(<<118>>), Bytes(<<255>>)}
Dbs == {None, IntObj(0)}
ExpireTimes == {None, IntObj(7)}

SeqsUpTo(S, n) == UNION {[1..m -> S] : m \in 0..n}

KeyLists == SeqsUpTo(Keys, MaxKeys)

\* mappings of text keys to values, as their items in iteration order
Mappings(codec) ==
    {d \in SeqsUpTo(TextKeys \X Values(codec), MaxKeys) :
        \A i, j \in 1..Len(d) : i # j => d[i][1] # d[j][1]}

NoCall == [op |-> "none"]
NoRequest == [url |-> "", body |-> Bytes(<<>>)]
NoReply == [status_code |-> 0, content |-> Bytes(<<>>), content_type |-> "",
            fields |-> EmptyMap]
NoOutcome == [exc |-> "pending", code |-> 0, ret |-> None]

Init ==
    /\ decode_keys \in BOOLEAN
    /\ serializer \in Serializers
    /\ store = EmptyMap
    /\ pc = "idle"
    /\ call = NoCall
    /\ sent = NoRequest
    /\ reply = NoReply
    /\ outcome = NoOutcome
    /\ calls = 0
    /\ written = EmptyMap

\* a transport that is handed every request a second time
session_post_again(n) == n + 2

\* self._session.post(...), line 102: the transport is called, once; n is the
\* number of calls it had received
session_post(n) == n + 1

\* An operation reaches the transport: request() builds the body and _post
\* makes the one transport call, in which the operation then blocks.
Post(c, rq) ==
    /\ calls < MaxCalls
    /\ pc' = "posted"
    /\ call' = [x \in DOMAIN c \cup {"allowed_status"} |->
                   IF x = "allowed_status" THEN rq.allowed_status ELSE c[x]]
    /\ sent' = _post(rq.path, request_body(rq.data), rq.db)
    /\ calls' = session_post(calls)
    /\ reply' = NoReply
    /\ outcome' = NoOutcome
    /\ UNCHANGED <<decode_keys, serializer, store, written>>

\* An operation raises before it reaches request().
Fail(c, e) ==
    /\ pc' = "returned"
    /\ call' = c
    /\ outcome' = Raises(e)
    /\ UNCHANGED <<decode_keys, serializer, store, sent, reply, calls, written>>

status ==
    /\ pc = "idle"
    /\ \E db \in Dbs :
        LET c == [op |-> "status", db |-> db] IN Post(c, status_request(c))

report ==
    /\ pc = "idle"
    /\ LET c == [op |-> "report"] IN Post(c, report_request(c))

clear ==
    /\ pc = "idle"
    /\ \E db \in Dbs :
        LET c == [op |-> "clear", db |-> db] IN Post(c, clear_request(c))

play_script ==
    /\ pc = "idle"
    /\ \E params \in Mappings(serializer) :
        LET c == [op |-> "play_script", params |-> params]
        IN  Post(c, play_script_request(c, serializer))

get ==
    /\ pc = "idle"
    /\ \E key \in Keys, db \in Dbs :
        LET c == [op |-> "get", key |-> key, db |-> db] IN Post(c, get_request(c))

_simple_write(cmd) ==
    \E key \in Keys, value \in Values(serializer), db \in Dbs,
       expire_time \in ExpireTimes :
        LET c == [op |-> cmd, key |-> key, value |-> value, db |-> db,
                  expire_time |-> expire_time]
        IN  Post(c, _simple_write_request(cmd, c, serializer))

set ==
    /\ pc = "idle"
    /\ _simple_write("set")

add ==
    /\ pc = "idle"
    /\ _simple_write("add")

replace ==
    /\ pc = "idle"
    /\ _simple_write("replace")

append ==
    /\ pc = "idle"
    /\ _simple_write("append")

remove ==
    /\ pc = "idle"
    /\ \E key \in Keys, db \in Dbs :
        LET c == [op |-> "remove", key |-> key, db |-> db] IN Post(c, remove_request(c))

check ==
    /\ pc = "idle"
    /\ \E key \in Keys, db \in Dbs :
        LET c == [op |-> "check", key |-> key, db |-> db] IN Post(c, check_request(c))

set_bulk ==
    /\ pc = "idle"
    /\ \E data \in Mappings(serializer), db \in Dbs, expire_time \in ExpireTimes :
        LET c == [op |-> "set_bulk", data |-> data, db |-> db,
                  expire_time |-> expire_time]
        IN  Post(c, set_bulk_request(c, serializer))

get_bulk ==
    /\ pc = "idle"
    /\ \E keys \in KeyLists, db \in Dbs :
        LET c == [op |-> "get_bulk", keys |-> keys, db |-> db]
        IN  Post(c, get_bulk_request(c))

remove_bulk ==
    /\ pc = "idle"
    /\ \E keys \in KeyLists, db \in Dbs :
        LET c == [op |-> "remove_bulk", keys |-> keys, db |-> db]
        IN  Post(c, remove_bulk_request(c))

seize ==
    /\ pc = "idle"
    /\ \E key \in Keys, db \in Dbs :
        LET c == [op |-> "seize", key |-> key, db |-> db] IN Post(c, seize_request(c))

cas ==
    /\ pc = "idle"
    /\ \E key \in Keys, old_val \in Values(serializer) \cup {None},
          new_val \in Values(serializer) \cup {None}, db \in Dbs,
          expire_time \in ExpireTimes :
        LET c == [op |-> "cas", key |-> key, old_val |-> old_val,
                  new_val |-> new_val, db |-> db, expire_time |-> expire_time]
        IN  IF cas_usage_error(c) THEN Fail(c, "ValueError")
            ELSE Post(c, cas_request(c, serializer))

\* what the blocked operation makes of the transport's answer r
ResultOf(c, r, q, decode_keys_, codec) ==
    CASE c.op = "status" -> status_result(c, r, q, decode_keys_, codec)
      [] c.op = "report" -> report_result(c, r, q, decode_keys_, codec)
      [] c.op = "clear" -> clear_result(c, r, q, decode_keys_, codec)
      [] c.op = "play_script" -> play_script_result(c, r, q, decode_keys_, codec)
      [] c.op = "get" -> get_result(c, r, q, decode_keys_, codec)
      [] c.op \in {"set", "add", "replace", "append"} ->
            _simple_write_result(c, r, q, decode_keys_, codec)
      [] c.op = "remove" -> remove_result(c, r, q, decode_keys_, codec)
      [] c.op = "check" -> check_result(c, r, q, decode_keys_, codec)
      [] c.op = "set_bulk" -> set_bulk_result(c, r, q, decode_keys_, codec)
      [] c.op = "get_bulk" -> get_bulk_result(c, r, q, decode_keys_, codec)
      [] c.op = "remove_bulk" -> remove_bulk_result(c, r, q, decode_keys_, codec)
      [] c.op = "seize" -> seize_result(c, r, q, decode_keys_, codec)
      [] c.op = "cas" -> cas_result(c, r, q, decode_keys_, codec)

\* the operation's call of self.request(...) answered by r, and the rest of it
Result(c, r, decode_keys_, codec) ==
    ResultOf(c, r, request(r, c.allowed_status, decode_keys_), decode_keys_, codec)

\* the keys whose record differs between st and st2
Changed(st, st2) ==
    {k \in DOMAIN st \cup DOMAIN st2 :
        k \notin DOMAIN st \/ k \notin DOMAIN st2 \/ st[k] # st2[k]}

\* The transport answers and the blocked operation runs to its end.
Transport ==
    /\ pc = "posted"
    /\ \E a \in Answers(sent, store) :
        LET r == [status_code |-> a.status_code, content |-> a.content,
                  content_type |-> a.content_type, fields |-> a.fields]
            kept == Without(written, Changed(store, a.store))
        IN  /\ reply' = r
            /\ store' = a.store
            /\ outcome' = Result(call, r, decode_keys, serializer)
            /\ written' = IF call.op = "set" /\ a.status_code = 200
                          THEN DictSet(kept, encode(call.key).s, call.value)
                          ELSE kept
    /\ pc' = "returned"
    /\ UNCHANGED <<decode_keys, serializer, call, sent, calls>>

\* The caller takes the result (or the exception); the adapter is idle again.
Return ==
    /\ pc = "returned"
    /\ pc' = "idle"
    /\ call' = NoCall
    /\ sent' = NoRequest
    /\ reply' = NoReply
    /\ outcome' = NoOutcome
    /\ UNCHANGED <<decode_keys, serializer, store, calls, written>>

Next ==
    \/ status
    \/ report
    \/ clear
    \/ play_script
    \/ get
    \/ set
    \/ add
    \/ replace
    \/ append
    \/ remove
    \/ check
    \/ set_bulk
    \/ get_bulk
    \/ remove_bulk
    \/ seize
    \/ cas
    \/ Transport
    \/ Return

Spec == Init /\ [][Next]_vars

\* ------------------------------------------------------------------------
\* The frame codec on its own: a mapping of byte keys to byte values is
\* encoded as a request body and the body is decoded as a response.
\* ------------------------------------------------------------------------
MaxFieldLen == 1

FrameBytes == {TAB, NL}
ByteStrings == {Bytes(x) : x \in SeqsUpTo(FrameBytes, MaxFieldLen)}

\* mappings of byte keys to byte values, as their items in iteration order
ByteMappings ==
    {d \in SeqsUpTo(ByteStrings \X ByteStrings, MaxKeys) :
        \A i, j \in 1..Len(d) : i # j => d[i][1] # d[j][1]}

FrameInit ==
    /\ decode_keys \in BOOLEAN
    /\ serializer = "KT_NONE"
    /\ store = EmptyMap
    /\ pc = "frame"
    /\ call \in {[op |-> "frame", data |-> d] : d \in ByteMappings}
    /\ sent = NoRequest
    /\ reply = NoReply
    /\ outcome = NoOutcome
    /\ calls = 0
    /\ written = EmptyMap

\* request() encodes the mapping: the mapping form of the encoder
FrameEncode ==
    /\ pc = "frame"
    /\ pc' = "encoded"
    /\ sent' = [url |-> "", body |-> request_body(Items(call.data))]
    /\ UNCHANGED <<decode_keys, serializer, store, call, reply, outcome, calls, written>>

\* the body comes back under a content type ending in colenc=B and is decoded
FrameDecode ==
    /\ pc = "encoded"
    /\ pc' = "decoded"
    /\ reply' = [status_code |-> 200, content |-> sent.body, content_type |-> CT_B,
                 fields |-> EmptyMap]
    /\ outcome' = _decode_response(sent.body, CT_B, decode_keys)
    /\ UNCHANGED <<decode_keys, serializer, store, call, sent, calls, written>>

FrameNext ==
    \/ FrameEncode
    \/ FrameDecode

FrameSpec == FrameInit /\ [][FrameNext]_vars

\* ------------------------------------------------------------------------
\* Properties
\* ------------------------------------------------------------------------
Answered == pc = "returned" /\ reply.status_code # 0

\* the statuses besides 200 that each operation declares acceptable
Acceptable(op) ==
    IF op \in {"get", "set", "add", "replace", "append", "remove", "check",
               "seize", "cas", "play_script"}
    THEN {450} ELSE {}

\* C1: whatever status the transport returns to an operation, the operation
\* raises a protocol error if and only if the status is neither 200 nor in
\* the operation's acceptable set ({450} for get, set, add, replace, append,
\* remove, check, seize, cas and play_script, empty for status, report,
\* clear, set_bulk, get_bulk and remove_bulk), and the error carries the
\* status.
C1_ProtocolErrorIff ==
    Answered =>
        /\ outcome.exc = "ProtocolError" <=>
              (reply.status_code # 200 /\ reply.status_code \notin Acceptable(call.op))
        /\ outcome.exc = "ProtocolError" => outcome.code = reply.status_code

\* a 450 answered to get_bulk, which declares no acceptable status, raised
C1_Witness ==
    /\ Answered
    /\ call.op = "get_bulk"
    /\ reply.status_code = 450
    /\ outcome = RaiseProtocolError(450)

\* a 450 answered to get did not raise
C1_Witness450 ==
    /\ Answered
    /\ call.op = "get"
    /\ reply.status_code = 450
    /\ outcome.exc = "none"

\* C2: cas called with old_val = None and new_val = None raises ValueError
\* (a usage error, not a protocol error) without building a request: the
\* step that makes the call leaves the number of transport calls and the
\* transport untouched, whatever key, db and expire_time are.
C2_CasUsageError ==
    [][(pc = "idle" /\ call'.op = "cas" /\ call'.old_val = None /\ call'.new_val = None)
         => /\ pc' = "returned"
            /\ outcome'.exc = "ValueError"
            /\ calls' = calls
            /\ sent' = NoRequest
            /\ reply' = NoReply]_vars

\* cas(key, None, None) has raised after the transport had been used before
C2_Witness ==
    /\ pc = "returned"
    /\ call.op = "cas"
    /\ call.old_val = None
    /\ call.new_val = None
    /\ outcome.exc = "ValueError"
    /\ calls > 0

\* a mapping with text or bytes keys, by the bytes of its keys
WireView(d) ==
    [w \in {encode(k).s : k \in DOMAIN d} |-> d[CHOOSE k \in DOMAIN d : encode(k).s = w]]

Range(f) == {f[i] : i \in DOMAIN f}

\* C3: set_bulk answered with status 200 returns the count the server
\* reports, the integer parsed from the num field of the response.  (Stated
\* for the calls that return: what is returned is that integer.)
C3_SetBulkCount ==
    (Answered /\ call.op = "set_bulk" /\ reply.status_code = 200 /\ outcome.exc = "none")
        => outcome.ret = IntObj(DigitsValue(reply.fields[F_num.s]))

\* the records requested by keys that the store holds, each value passed
\* through the value codec
ExpectedBulk(keys, st, codec) ==
    [w \in {encode(k).s : k \in Range(keys)} \cap DOMAIN st |->
        _decode_value(codec, Bytes(st[w])).ret]

\* C4: with the store holding M, get_bulk(keys) answered with status 200
\* returns exactly {k: M[k] for k in keys if k in M}: absent keys are left
\* out, the underscore is stripped, the values are decoded by the value
\* codec and num is no entry.  (Keys are compared by their bytes.)
C4_GetBulkExact ==
    (Answered /\ call.op = "get_bulk" /\ reply.status_code = 200)
        => /\ outcome.exc = "none"
           /\ outcome.ret.t = "dict"
           /\ WireView(outcome.ret.d) = ExpectedBulk(call.keys, store, serializer)

BooleanOps == {"set", "add", "replace", "append", "remove", "check", "cas"}

\* C5: a 450 becomes a value, never an exception: None from get and seize,
\* False from set, add, replace, append, remove, check and cas; on 200 these
\* return True, and get and seize return the value field of the response
\* decoded by the value codec.
C5_StatusToValue ==
    (Answered /\ call.op \in BooleanOps \cup {"get", "seize"})
        => /\ reply.status_code = 450 =>
                outcome = IF call.op \in BooleanOps THEN Returns(Bool(FALSE))
                          ELSE Returns(None)
           /\ reply.status_code = 200 =>
                outcome = IF call.op \in BooleanOps THEN Returns(Bool(TRUE))
                          ELSE _decode_value(serializer, Bytes(reply.fields[F_value.s]))

\* C6: set(k, v) answered with 200 and then, with no write or removal of k
\* in between, get(k) answered with 200: get returns v.
C6_SetThenGet ==
    (Answered /\ call.op = "get" /\ reply.status_code = 200
       /\ encode(call.key).s \in DOMAIN written)
        => outcome = Returns(written[encode(call.key).s])

\* C8: a get_bulk response whose num field is "0" makes get_bulk return the
\* empty mapping, with keys decoded to text or left as bytes.
C8_NumZeroEmpty ==
    (Answered /\ call.op = "get_bulk" /\ reply.status_code = 200
       /\ F_num.s \in DOMAIN reply.fields /\ reply.fields[F_num.s] = <<48>>)
        => outcome = Returns(Dict(EmptyMap))

N_DB == <<68, 66>>

\* the database selector an operation was called with is present
SelectorPresent(c) == "db" \in DOMAIN c /\ c.db # None

\* C9: the path carries ?DB=<selector> exactly when the operation was called
\* with a selector; without one (None: the server's default) the path has
\* no DB parameter; and the selector is never a field of the body.
C9_DbSelector ==
    sent # NoRequest =>
        /\ sent.url = Prefix \o "/" \o call.op
                      \o (IF SelectorPresent(call)
                          THEN "?DB=" \o DecimalStr(call.db.n) ELSE "")
        /\ N_DB \notin DOMAIN ServerParse(sent.body)

\* the fields the server wrote, as bytes
SentFields(r) == [w \in DOMAIN r.fields |-> Bytes(r.fields[w])]

\* what _decode_response makes of the answer
Decoded(r) == _decode_response(r.content, r.content_type, decode_keys)

\* the decoded answer is the mapping of the fields the server wrote
DecodedRight(d, r) ==
    /\ d.exc = "none"
    /\ d.ret.t = "dict"
    /\ WireView(d.ret.d) = SentFields(r)

\* C10: the decoder of a response is chosen by its content type alone:
\* base64 for one ending in colenc=B, URL-unescaping for one ending in
\* colenc=U, none for any other; in all three cases decoding returns the
\* mapping of the decoded fields and does not fail.
C10_DecoderByContentType ==
    reply # NoReply => DecodedRight(Decoded(reply), reply)

\* The answers that are not typed colenc=U: C4, C5, C6, C8 and C10 hold of
\* them, so unquote_b is all that breaks these five.
NotUrlEncoded == reply.content_type # CT_U
C4_ExceptUrlEncoded == NotUrlEncoded => C4_GetBulkExact
C5_ExceptUrlEncoded == NotUrlEncoded => C5_StatusToValue
C6_ExceptUrlEncoded == NotUrlEncoded => C6_SetThenGet
C8_ExceptUrlEncoded == NotUrlEncoded => C8_NumZeroEmpty
C10_ExceptUrlEncoded == NotUrlEncoded => C10_DecoderByContentType

\* the mapping whose items are d
AsMapping(d) ==
    [k \in {d[i][1] : i \in DOMAIN d} |-> d[CHOOSE i \in DOMAIN d : d[i][1] = k][2]]

\* C7: for every mapping of byte keys to byte values (the empty one, and
\* keys and values holding tab or newline bytes, included), decoding the
\* frame the mapping-form encoder produced, under a content type ending in
\* colenc=B and with keys left as bytes, yields the mapping: the same keys,
\* the same value for each, nothing else.
C7_FrameRoundTrip ==
    (pc = "decoded" /\ ~decode_keys) => outcome = Returns(Dict(AsMapping(call.data)))

\* a mapping of two records with a tab in a value and a newline in a key
\* has come back
C7_Witness ==
    /\ pc = "decoded"
    /\ ~decode_keys
    /\ Len(call.data) = 2
    /\ \E i \in DOMAIN call.data : TAB \in Range(call.data[i][2].s)
    /\ \E i \in DOMAIN call.data : NL \in Range(call.data[i][1].s)
    /\ outcome = Returns(Dict(AsMapping(call.data)))

\* the operation that starts in this step has passed its argument check
Validated == ~(call'.op = "cas" /\ call'.old_val = None /\ call'.new_val = None)

\* C11: every operation that passes its argument validation issues exactly
\* one transport call, whatever the outcome: starting it calls the transport
\* once, and from then until the caller has the result the transport is not
\* called again (no retry), on status 200, on an accepted 450 and on a
\* protocol error alike; the answer ends that same operation, and a status
\* that is neither 200 nor accepted ends it with the protocol error.
C11_OneTransportCall ==
    [][/\ (pc = "idle" /\ Validated) => (pc' = "posted" /\ calls' = calls + 1)
       /\ pc # "idle" => calls' = calls
       /\ pc = "posted" =>
            /\ pc' = "returned"
            /\ call' = call
            /\ sent' = sent
            /\ reply'.status_code \in StatusCodes
            /\ outcome' # NoOutcome
            /\ reply'.status_code \notin {200} \cup Acceptable(call.op) =>
                   outcome' = RaiseProtocolError(reply'.status_code)
       /\ pc = "returned" => pc' = "idle"]_vars

\* a second operation has ended in a protocol error, the transport having
\* been called once for it and once for the operation before it
C11_Witness ==
    /\ pc = "returned"
    /\ calls = 2
    /\ reply.status_code = 500
    /\ outcome = RaiseProtocolError(500)

====
